---- MODULE Spec2Model ----
(***************************************************************************)
(* Cat re-identification and sighting reconciliation.                      *)
(*                                                                         *)
(*  - the identify-cat edge function: feature extraction, the scoring     *)
(*    loop over the catalog and the response it builds                     *)
(*    (supabase/functions/identify-cat/index.ts);                          *)
(*  - the useCats hook: createCat, uploadCatImage and addSighting, each    *)
(*    store statement being one step (hooks/useCats);                      *)
(*  - the cats and cat_sightings tables of the migration.                  *)
(*                                                                         *)
(* Scores are rationals in the code (matches / length * weight).  They are *)
(* kept exact here as integers in units of 1/Scale, Scale being a common   *)
(* multiple of every possible array length.                                *)
(***************************************************************************)
EXTENDS Integers, Sequences, FiniteSets, TLC

\* ------------------------------------------------------------------ bounds
MaxLen == 3          \* longest array the extractor returns for one dimension
MaxCatalog == 2      \* longest catalog read by identify-cat
MaxCalls == 3        \* useCats calls (createCat, addSighting) started in a run

\* -------------------------------------------------------- program constants
MATCH_THRESHOLD == 70
BREED_WEIGHT == 20
COLOR_WEIGHT == 25
PATTERN_WEIGHT == 25
DISTINCTIVE_WEIGHT == 30

RECURSIVE Factorial(_)
Factorial(n) == IF n <= 1 THEN 1 ELSE n * Factorial(n - 1)

\* One score point is Scale units: every length 1..MaxLen divides Scale.
Scale == Factorial(MaxLen)

Max(a, b) == IF a >= b THEN a ELSE b

\* ------------------------------------------------------------- JS values
\* A JSON object is a function from its keys; a key that is missing reads
\* as undefined.  null (an absent ai_features, no bestMatch) is Null.
Undefined == "undefined"
Null == [null |-> TRUE]
EmptyObject == [k \in {} |-> Undefined]

IsNull(v) == v = Null
Has(obj, key) == key \in DOMAIN obj
Get(obj, key) == IF Has(obj, key) THEN obj[key] ELSE Undefined

\* Token 1 is the one a stored cat can hold, token 2 one it does not hold.
Tokens == {1, 2}
Breeds == {"siamese", "persian"}

RECURSIVE ArraysOfLen(_)
\* The arrays of exactly n tokens, repetitions included, entries in
\* non-decreasing order: filter, includes and length do not depend on the
\* order of the entries.
ArraysOfLen(n) ==
    IF n = 0 THEN {<<>>}
    ELSE UNION {{Append(a, t) : t \in {u \in Tokens : Len(a) = 0 \/ u >= a[Len(a)]}}
                : a \in ArraysOfLen(n - 1)}

Arrays(maxLen) == UNION {ArraysOfLen(n) : n \in 0 .. maxLen}

\* The objects with an optional key: {} or {key: v}.
Optional(key, values) == {EmptyObject} \cup {key :> v : v \in values}

\* What the extractor can return for a photo (every field optional).
QueryFeatures ==
    {b @@ c @@ p @@ d @@ [estimated_age |-> "adult", size |-> "medium"] :
        b \in Optional("breed", {"siamese"}),
        c \in Optional("colors", Arrays(MaxLen)),
        p \in Optional("patterns", Arrays(MaxLen)),
        d \in Optional("distinctive_features", Arrays(MaxLen))}

\* What a cat row can hold in ai_features besides null.
StoredFeatures ==
    {b @@ c @@ p @@ d :
        b \in {[estimated_age |-> "adult", size |-> "medium"],
               [breed |-> "siamese", estimated_age |-> "adult", size |-> "medium"],
               [breed |-> "persian", estimated_age |-> "young", size |-> "small"]},
        c \in Optional("colors", {<<1>>}),
        p \in Optional("patterns", {<<1>>}),
        d \in Optional("distinctive_features", {<<1>>})}

\* The catalogs identify-cat is run against hold these (arrays of at most
\* one entry keep the catalogs enumerable).
CatalogFeatures ==
    {EmptyObject} \cup
    {[breed |-> "siamese", estimated_age |-> "adult", size |-> "medium"] @@ c @@ p @@ d :
        c \in Optional("colors", {<<1>>}),
        p \in Optional("patterns", {<<1>>}),
        d \in Optional("distinctive_features", {<<1>>})}

\* The records the extractor answers with when run against those catalogs.
CatalogQueries ==
    {b @@ c @@ p @@ d :
        b \in Optional("breed", {"siamese"}),
        c \in Optional("colors", Arrays(1)),
        p \in Optional("patterns", Arrays(1)),
        d \in Optional("distinctive_features", Arrays(1))}

\* the placeholder the handler substitutes for an unparsable reply
\* ('unknown' and 'solid' are token 0)                  index.ts:342-350
FallbackFeatures ==
    [breed |-> "domestic_shorthair", colors |-> <<0>>, patterns |-> <<0>>,
     distinctive_features |-> <<>>, estimated_age |-> "adult", size |-> "medium",
     similarity_score |-> 50]

\* ------------------------------------------------------------ the scorer
\* existingFeatures.colors?.includes(token)          index.ts:383-385
Includes(obj, key, token) ==
    /\ Has(obj, key)
    /\ \E i \in 1 .. Len(obj[key]) : obj[key][i] = token

\* mutant: a token the query holds twice is counted once
MatchesDistinct(query, existing, key) ==
    Cardinality({query[key][i] : i \in {k \in 1 .. Len(query[key]) :
                                          Includes(existing, key, query[key][k])}})

\* features.colors.filter(c => existing.colors?.includes(c)).length
Matches(query, existing, key) ==
    Cardinality({i \in 1 .. Len(query[key]) : Includes(existing, key, query[key][i])})

\* mutant: the match count is not divided by the query's length
DimensionPointsUnnormalised(query, existing, key, weight) ==
    Matches(query, existing, key) * weight * Scale

\* (matches / Math.max(features.colors.length, 1)) * weight, in 1/Scale
DimensionPoints(query, existing, key, weight) ==
    (Matches(query, existing, key) * weight * Scale) \div Max(Len(query[key]), 1)

\* if (existingFeatures.breed === features.breed) matchScore += 20
BreedPoints(query, existing) ==
    IF Get(existing, "breed") = Get(query, "breed") THEN BREED_WEIGHT * Scale ELSE 0

\* features.<dimension>.filter throws a TypeError when the key is missing
ScoringThrows(query) ==
    \/ ~Has(query, "colors")
    \/ ~Has(query, "patterns")
    \/ ~Has(query, "distinctive_features")

MatchScore(query, existing) ==
    BreedPoints(query, existing)
    + DimensionPoints(query, existing, "colors", COLOR_WEIGHT)
    + DimensionPoints(query, existing, "patterns", PATTERN_WEIGHT)
    + DimensionPoints(query, existing, "distinctive_features", DISTINCTIVE_WEIGHT)

\* mutant: the threshold test is dropped from the update
ReplacesWithoutThreshold(score, best) == score > best

\* matchScore > bestMatchScore && matchScore >= 70
Replaces(score, best) == score > best /\ score >= MATCH_THRESHOLD * Scale

\* ------------------------------------------------------------------ state
VARIABLES
    cats,            \* the cats table, rows in insertion order
    sightings,       \* the cat_sightings table, rows in insertion order
    hpc,             \* identify-cat: where the handler is
    reply,           \* identify-cat: how the extractor answered
    apiKey,          \* identify-cat: TRUE when OPENAI_API_KEY is configured
    features,        \* identify-cat: the query record (Null before extraction)
    existingCats,    \* identify-cat: the catalog as read
    idx,             \* identify-cat: next catalog position of the loop
    bestMatch,       \* identify-cat: best cat row so far, or Null
    bestMatchScore,  \* identify-cat: its score, in 1/Scale
    matchScore,      \* identify-cat: score of the cat scored last, in 1/Scale
    scored,          \* identify-cat: ids of the cats the loop has scored
    response,        \* identify-cat: the response body, Null until sent
    user,            \* per client: the signed-in user id, or NoUser
    call,            \* per client: the useCats call in progress
    ncalls,          \* number of useCats calls started so far
    dialog,          \* the CatProfile dialog's state (its useState cells)
    inflight         \* the images whose analysis has not returned yet

storeVars == <<cats, sightings>>
dialogVars == <<dialog, inflight>>
clientVars == <<user, call, ncalls, dialogVars>>
handlerVars == <<hpc, reply, apiKey, features, existingCats, idx, bestMatch,
                 bestMatchScore, matchScore, scored, response>>
vars == <<storeVars, handlerVars, clientVars>>

\* ------------------------------------------------------------- the store
NullUrl == "null"

\* a cats row; updated_at counts the updates of the row (the trigger sets
\* it to now() on every UPDATE)                    migration:30-39, 122-125
CatRow(id, name, feats, owner) ==
    [id |-> id, name |-> name, image_url |-> NullUrl, ai_features |-> feats,
     created_by |-> owner, updated_at |-> 0]

\* a cat_sightings row                                  migration:62-70
SightingRow(id, catId, lat, lng, spotter, notes) ==
    [id |-> id, cat_id |-> catId, latitude |-> lat, longitude |-> lng,
     spotted_by |-> spotter, notes |-> notes]

\* mutant: a cat already on file under that name and those features is
\* not inserted again
InsertCatOnce(table, name, feats, owner) ==
    IF \E i \in DOMAIN table : table[i].name = name /\ table[i].ai_features = feats
    THEN table
    ELSE Append(table, CatRow(Len(table) + 1, name, feats, owner))

\* from('cats').insert({name, ai_features, created_by}); ids are fresh
InsertCat(table, name, feats, owner) ==
    Append(table, CatRow(Len(table) + 1, name, feats, owner))

\* mutant: the update rewrites the whole row from the form's defaults
UpdateImageUrlAndFeatures(table, id, url, who) ==
    [i \in DOMAIN table |->
        IF table[i].id = id /\ table[i].created_by = who
        THEN [table[i] EXCEPT !.image_url = url, !.updated_at = @ + 1,
                              !.ai_features = EmptyObject]
        ELSE table[i]]

\* from('cats').update({image_url}).eq('id', id), under the policy
\* "Users can update their own cats" and the updated_at trigger
UpdateImageUrl(table, id, url, who) ==
    [i \in DOMAIN table |->
        IF table[i].id = id /\ table[i].created_by = who
        THEN [table[i] EXCEPT !.image_url = url, !.updated_at = @ + 1]
        ELSE table[i]]

\* mutant: the row is filed under the neighbouring cat id
InsertSightingElsewhere(table, catId, lat, lng, spotter, notes) ==
    Append(table, SightingRow(Len(table) + 1, catId + 1, lat, lng, spotter, notes))

\* mutant: the insert is an upsert on (cat_id, spotted_by)
InsertSightingUpsert(table, catId, lat, lng, spotter, notes) ==
    IF \E j \in DOMAIN table : table[j].cat_id = catId /\ table[j].spotted_by = spotter
    THEN [j \in DOMAIN table |->
            IF table[j].cat_id = catId /\ table[j].spotted_by = spotter
            THEN [table[j] EXCEPT !.latitude = lat + 1, !.longitude = lng + 1,
                                  !.notes = notes]
            ELSE table[j]]
    ELSE Append(table, SightingRow(Len(table) + 1, catId, lat, lng, spotter, notes))

\* mutant: the insert is sent twice
InsertSightingTwice(table, catId, lat, lng, spotter, notes) ==
    Append(Append(table, SightingRow(Len(table) + 1, catId, lat, lng, spotter, notes)),
           SightingRow(Len(table) + 2, catId, lat, lng, spotter, notes))

\* from('cat_sightings').insert({cat_id, latitude, longitude, spotted_by, notes})
InsertSighting(table, catId, lat, lng, spotter, notes) ==
    Append(table, SightingRow(Len(table) + 1, catId, lat, lng, spotter, notes))

\* mutant: the column carries no foreign key
CatExistsUnchecked(table, catId) == catId \in Nat

\* cat_id REFERENCES public.cats(id)                    migration:64
CatExists(table, catId) == \E i \in DOMAIN table : table[i].id = catId

RECURSIVE Reverse(_)
Reverse(s) == IF s = <<>> THEN <<>> ELSE Append(Reverse(Tail(s)), Head(s))

\* from('cats').select('*').order('created_at', {ascending: false})
ListCats(table) == Reverse(table)

\* mutant: the read stamps every row it returns
AfterSelectStamped(table) ==
    [i \in DOMAIN table |-> [table[i] EXCEPT !.updated_at = @ + 1]]

\* the cats table once the select has run: a select writes nothing
AfterSelect(table) == table

\* ------------------------------------------------- identify-cat handler
\* mutant: the catch block answers with the placeholder record
ErrorResponseWithPlaceholder(message) ==
    [error |-> message, features |-> FallbackFeatures, existing_cat |-> Null,
     match_score |-> 0, is_likely_same_cat |-> FALSE]

\* the catch block's body                               index.ts:420-432
ErrorResponse(message) ==
    [error |-> message, features |-> Null, existing_cat |-> Null,
     match_score |-> 0, is_likely_same_cat |-> FALSE]

\* mutant: the candidate is left out of the body
MatchResponseNoCandidate(feats, best, bestScore) ==
    [features |-> feats, existing_cat |-> Null, match_score |-> bestScore,
     is_likely_same_cat |-> (bestScore >= MATCH_THRESHOLD * Scale)]

\* mutant: is_likely_same_cat needs a score above the threshold
MatchResponseStrict(feats, best, bestScore) ==
    [features |-> feats, existing_cat |-> best, match_score |-> bestScore,
     is_likely_same_cat |-> (bestScore > MATCH_THRESHOLD * Scale)]

\* mutant: the score reported is the one computed last, not the best one
MatchResponseLastScore(feats, best, bestScore) ==
    [features |-> feats, existing_cat |-> best, match_score |-> matchScore,
     is_likely_same_cat |-> (bestScore >= MATCH_THRESHOLD * Scale)]

\* the body sent after the loop                         index.ts:411-418
MatchResponse(feats, best, bestScore) ==
    [features |-> feats, existing_cat |-> best, match_score |-> bestScore,
     is_likely_same_cat |-> (bestScore >= MATCH_THRESHOLD * Scale)]

\* reading the key; the earlier build answers itself (index.ts:64-78),
\* the later one throws into the catch block (index.ts:280-283)
CheckKey ==
    /\ hpc = "start"
    /\ IF apiKey
       THEN hpc' = "extract" /\ UNCHANGED response
       ELSE /\ hpc' = "done"
            /\ response' \in {ErrorResponse("openai_api_key_not_configured"),
                              ErrorResponse("OpenAI API key not configured")}
    /\ UNCHANGED <<storeVars, reply, apiKey, features, existingCats, idx,
                   bestMatch, bestMatchScore, matchScore, scored, clientVars>>

\* the extractor call and the parse of its reply        index.ts:292-351
Extract ==
    /\ hpc = "extract"
    /\ reply' \in {"ok", "unparsable", "bad_status", "network_error"}
    /\ CASE reply' = "ok" ->
              /\ features' \in CatalogQueries
              /\ hpc' = "search"
              /\ UNCHANGED response
        [] reply' = "unparsable" ->
              /\ features' = FallbackFeatures
              /\ hpc' = "search"
              /\ UNCHANGED response
        [] OTHER ->
              /\ hpc' = "done"
              /\ response' = ErrorResponse(reply')
              /\ UNCHANGED features
    /\ UNCHANGED <<storeVars, apiKey, existingCats, idx, bestMatch,
                   bestMatchScore, matchScore, scored, clientVars>>

\* the catalog read                                     index.ts:356-364
Search ==
    /\ hpc = "search"
    /\ \/ /\ existingCats' = ListCats(cats)
          /\ cats' = AfterSelect(cats)
          /\ hpc' = "loop"
          /\ UNCHANGED response
       \/ /\ hpc' = "done"
          /\ response' = ErrorResponse("searchError")
          /\ UNCHANGED <<cats, existingCats>>
    /\ UNCHANGED <<sightings, reply, apiKey, features, idx, bestMatch,
                   bestMatchScore, matchScore, scored, clientVars>>

\* one iteration of  for (const existingCat of existingCats)
\*                                                      index.ts:373-406
LoopStep ==
    /\ hpc = "loop"
    /\ idx <= Len(existingCats)
    /\ LET existingCat == existingCats[idx]
           existingFeatures == existingCat.ai_features
       IN  IF IsNull(existingFeatures)
           THEN /\ idx' = idx + 1
                /\ UNCHANGED <<hpc, bestMatch, bestMatchScore, matchScore,
                               scored, response>>
           ELSE IF ScoringThrows(features)
           THEN /\ hpc' = "done"
                /\ response' = ErrorResponse("TypeError")
                /\ UNCHANGED <<idx, bestMatch, bestMatchScore, matchScore, scored>>
           ELSE /\ matchScore' = MatchScore(features, existingFeatures)
                /\ scored' = scored \cup {existingCat.id}
                /\ idx' = idx + 1
                /\ IF Replaces(matchScore', bestMatchScore)
                   THEN bestMatch' = existingCat /\ bestMatchScore' = matchScore'
                   ELSE UNCHANGED <<bestMatch, bestMatchScore>>
                /\ UNCHANGED <<hpc, response>>
    /\ UNCHANGED <<storeVars, reply, apiKey, features, existingCats, clientVars>>

\* the loop is over: the response is sent               index.ts:409-418
Respond ==
    /\ hpc = "loop"
    /\ idx > Len(existingCats)
    /\ hpc' = "done"
    /\ response' = MatchResponse(features, bestMatch, bestMatchScore)
    /\ UNCHANGED <<storeVars, reply, apiKey, features, existingCats, idx,
                   bestMatch, bestMatchScore, matchScore, scored, clientVars>>

HandlerIdle ==
    /\ reply = "none"
    /\ features = Null
    /\ existingCats = <<>>
    /\ idx = 1
    /\ bestMatch = Null
    /\ bestMatchScore = 0
    /\ matchScore = 0
    /\ scored = {}
    /\ response = Null

\* ------------------------------------------------------- useCats hook
Clients == {"c1", "c2"}
NoUser == "anon"
Names == {"Luna"}
Files == {"cat.jpg"}
\* what a caller can hand createCat in place of a name and of a file
EmptyName == ""
NoFile == "no file"
\* where each client's dialog was opened (CatProfile's location prop)
Location(c) == IF c = "c1" THEN <<41, 2>> ELSE <<48, 11>>
NoNotes == Undefined
\* what createCat is handed as features: aiResult?.features || {}
SubmittedFeatures ==
    {EmptyObject,
     [breed |-> "siamese", colors |-> <<1>>, patterns |-> <<1>>,
      distinctive_features |-> <<1>>, estimated_age |-> "adult", size |-> "medium"]}

IdleCall ==
    [op |-> "none", pc |-> "idle", result |-> "none", catId |-> 0, sightingId |-> 0,
     imageFile |-> "none", imageUrl |-> NullUrl, latitude |-> 0, longitude |-> 0]

\* useState(""), useState<File | null>(null), useState(false), ...
\*                                                   part_003:23-30
\* open: the parent renders the dialog; committed (history): a commit
\* has been issued on the outcome held in aiResult
NewDialog ==
    [open |-> TRUE, catName |-> EmptyName, catImage |-> NoFile,
     isAnalyzing |-> FALSE, isSubmitting |-> FALSE, aiResult |-> Null,
     showExistingCat |-> FALSE, committed |-> FALSE]

\* the dialog once the parent has stopped rendering it: an unmounted
\* component holds no state                          part_004:31-39
ClosedDialog == [NewDialog EXCEPT !.open = FALSE]

ClientsIdle ==
    /\ call = [c \in Clients |-> IdleCall]
    /\ ncalls = 0
    /\ dialog = NewDialog
    /\ inflight = {}

\* createCat up to the cats insert                  part_003:548-564
CreateCatStart(c, name, imageFile, feats, lat, lng) ==
    /\ call[c].pc = "idle"
    /\ ncalls < MaxCalls
    /\ ncalls' = ncalls + 1
    /\ \/ /\ user[c] = NoUser
          /\ call' = [call EXCEPT ![c] = [IdleCall EXCEPT !.op = "createCat",
                         !.pc = "returned", !.result = "error"]]
          /\ UNCHANGED cats
       \/ /\ user[c] # NoUser
          /\ cats' = InsertCat(cats, name, feats, user[c])
          /\ call' = [call EXCEPT ![c] = [IdleCall EXCEPT !.op = "createCat",
                         !.pc = "upload", !.catId = Len(cats) + 1,
                         !.imageFile = imageFile, !.latitude = lat,
                         !.longitude = lng]]
       \/ /\ user[c] # NoUser
          /\ call' = [call EXCEPT ![c] = [IdleCall EXCEPT !.op = "createCat",
                         !.pc = "returned", !.result = "error"]]
          /\ UNCHANGED cats
    /\ UNCHANGED <<sightings, user, handlerVars>>

\* createCat called on the hook, no dialog involved
CreateCat(c, name, imageFile, feats, lat, lng) ==
    CreateCatStart(c, name, imageFile, feats, lat, lng) /\ UNCHANGED dialogVars

\* mutant: createCat gives up when the upload returned null
AfterUploadAborting(url) == IF url # NullUrl THEN "link" ELSE "returned"

\* where createCat goes once uploadCatImage has returned: if (imageUrl)
\* the update, else straight to the sighting insert  part_003:568-580
AfterUpload(url) == IF url # NullUrl THEN "link" ELSE "sighting"

\* uploadCatImage: the public url, or null when the upload fails (reading
\* file.name of a missing file throws inside its try block)
\*                                                  part_003:521-546, 568
UploadCatImage(c) ==
    /\ call[c].pc = "upload"
    /\ \E url \in (IF call[c].imageFile = NoFile THEN {} ELSE {"cat-images/photo"})
                   \cup {NullUrl} :
          call' = [call EXCEPT ![c].imageUrl = url, ![c].pc = AfterUpload(url)]
    /\ UNCHANGED <<storeVars, user, ncalls, dialogVars, handlerVars>>

\* if (imageUrl) update image_url                   part_003:570-578
LinkImage(c) ==
    /\ call[c].pc = "link"
    /\ \/ /\ cats' = UpdateImageUrl(cats, call[c].catId, call[c].imageUrl, user[c])
          /\ call' = [call EXCEPT ![c].pc = "sighting"]
       \/ /\ call' = [call EXCEPT ![c].pc = "returned", ![c].result = "error"]
          /\ UNCHANGED cats
    /\ UNCHANGED <<sightings, user, ncalls, dialogVars, handlerVars>>

\* the first sighting and the return                part_003:580-611
FirstSighting(c) ==
    /\ call[c].pc = "sighting"
    /\ \/ /\ sightings' = InsertSighting(sightings, call[c].catId, call[c].latitude,
                                         call[c].longitude, user[c], NoNotes)
          /\ call' = [call EXCEPT ![c].pc = "returned", ![c].result = "ok",
                                  ![c].sightingId = Len(sightings) + 1]
       \/ /\ call' = [call EXCEPT ![c].pc = "returned", ![c].result = "error"]
          /\ UNCHANGED sightings
    /\ UNCHANGED <<cats, user, ncalls, dialogVars, handlerVars>>

\* addSighting                                      part_003:614-645
AddSightingCall(c, catId, lat, lng, notes) ==
    /\ call[c].pc = "idle"
    /\ ncalls < MaxCalls
    /\ ncalls' = ncalls + 1
    /\ \/ /\ user[c] # NoUser
          /\ CatExists(cats, catId)
          /\ sightings' = InsertSighting(sightings, catId, lat, lng, user[c], notes)
          /\ call' = [call EXCEPT ![c] = [IdleCall EXCEPT !.op = "addSighting",
                         !.pc = "returned", !.result = "ok", !.catId = catId,
                         !.sightingId = Len(sightings) + 1,
                         !.latitude = lat, !.longitude = lng]]
       \/ /\ call' = [call EXCEPT ![c] = [IdleCall EXCEPT !.op = "addSighting",
                         !.pc = "returned", !.result = "error", !.catId = catId,
                         !.latitude = lat, !.longitude = lng]]
          /\ UNCHANGED sightings
    /\ UNCHANGED <<cats, user, handlerVars>>

\* addSighting called on the hook, no dialog involved
AddSighting(c, catId, lat, lng, notes) ==
    AddSightingCall(c, catId, lat, lng, notes) /\ UNCHANGED dialogVars

\* the caller has the result; the client can call again
ReturnToCaller(c) ==
    /\ call[c].pc = "returned"
    /\ call' = [call EXCEPT ![c] = IdleCall]
    /\ UNCHANGED <<storeVars, user, ncalls, handlerVars>>

\* the caller is not a dialog
Return(c) == ReturnToCaller(c) /\ UNCHANGED dialogVars

\* ------------------------------------------ the scorer on its own inputs
\* The loop entered with a one-cat catalog: every query record against
\* every stored record.
InitScore ==
    /\ \E q \in QueryFeatures, e \in StoredFeatures :
          /\ features = q
          /\ cats = <<CatRow(1, "Luna", e, "u1")>>
    /\ sightings = <<>>
    /\ existingCats = ListCats(cats)
    /\ apiKey = TRUE
    /\ hpc = "loop"
    /\ reply = "ok"
    /\ idx = 1
    /\ bestMatch = Null
    /\ bestMatchScore = 0
    /\ matchScore = 0
    /\ scored = {}
    /\ response = Null
    /\ user = [c \in Clients |-> "u1"]
    /\ ClientsIdle

NextScore == LoopStep \/ Respond
SpecScore == InitScore /\ [][NextScore]_vars

\* --------------------------------------- identify-cat against a catalog
RECURSIVE Catalogs(_)
\* the cats tables of exactly n rows, ids in insertion order
Catalogs(n) ==
    IF n = 0 THEN {<<>>}
    ELSE {Append(t, CatRow(n, "Luna", f, "u1")) :
              t \in Catalogs(n - 1), f \in CatalogFeatures \cup {Null}}

InitResolve ==
    /\ cats \in UNION {Catalogs(n) : n \in 0 .. MaxCatalog}
    /\ sightings = [i \in DOMAIN cats |->
                       SightingRow(i, cats[i].id, 41, 2, cats[i].created_by, NoNotes)]
    /\ apiKey \in BOOLEAN
    /\ hpc = "start"
    /\ HandlerIdle
    /\ user = [c \in Clients |-> "u1"]
    /\ ClientsIdle

NextResolve == CheckKey \/ Extract \/ Search \/ LoopStep \/ Respond
SpecResolve == InitResolve /\ [][NextResolve]_vars

\* The handler's own steps are taken once they can be. The extractor's
\* answer (Extract) is awaited with a plain fetch, no AbortController and
\* no timer (index.ts:292-328), so nothing obliges that step to happen.
SpecLive ==
    /\ SpecResolve
    /\ WF_vars(CheckKey)
    /\ WF_vars(Search)
    /\ WF_vars(LoopStep)
    /\ WF_vars(Respond)

\* ------------------------------------------- clients against the store
Init ==
    /\ cats = <<>>
    /\ sightings = <<>>
    /\ user \in {[c1 |-> "u1", c2 |-> u] : u \in {"u2", NoUser}}
    /\ ClientsIdle
    /\ apiKey = TRUE
    /\ hpc = "start"
    /\ HandlerIdle

Next ==
    \E c \in Clients :
        \/ \E name \in Names, file \in Files, feats \in SubmittedFeatures :
              CreateCat(c, name, file, feats, Location(c)[1], Location(c)[2])
        \/ UploadCatImage(c)
        \/ LinkImage(c)
        \/ FirstSighting(c)
        \/ \E catId \in 1 .. MaxCalls :
              AddSighting(c, catId, Location(c)[1], Location(c)[2], NoNotes)
        \/ Return(c)

Spec == Init /\ [][Next]_vars

\* ------------------------------------------ createCat on any arguments
\* createCat called with whatever name and file the caller holds
NextCommit ==
    \E c \in Clients :
        \/ \E name \in Names \cup {EmptyName}, file \in Files \cup {NoFile} :
              CreateCat(c, name, file, EmptyObject, Location(c)[1], Location(c)[2])
        \/ UploadCatImage(c)
        \/ LinkImage(c)
        \/ FirstSighting(c)
        \/ Return(c)

SpecCommit == Init /\ [][NextCommit]_vars

\* ------------------------------------------------- the CatProfile dialog
\* One dialog, opened by client c1 at Location("c1"), against the store.
DialogClient == "c1"
Images == {"a.jpg", "b.jpg"}

\* what the extractor reads from each photo             index.ts:292-340
ImageFeatures(img) ==
    IF img = "a.jpg"
    THEN [breed |-> "siamese", colors |-> <<1>>, patterns |-> <<1>>,
          distinctive_features |-> <<1>>, estimated_age |-> "adult", size |-> "medium"]
    ELSE [breed |-> "persian", colors |-> <<2>>, patterns |-> <<2>>,
          distinctive_features |-> <<2>>, estimated_age |-> "young", size |-> "small"]

RECURSIVE MatchLoop(_, _, _, _, _)
\* the for loop over existingCats and the body sent after it
\*                                                      index.ts:368-418
MatchLoop(query, catalog, i, best, bestScore) ==
    IF i > Len(catalog) THEN MatchResponse(query, best, bestScore)
    ELSE IF IsNull(catalog[i].ai_features)
    THEN MatchLoop(query, catalog, i + 1, best, bestScore)
    ELSE LET score == MatchScore(query, catalog[i].ai_features)
         IN  IF Replaces(score, bestScore)
             THEN MatchLoop(query, catalog, i + 1, catalog[i], score)
             ELSE MatchLoop(query, catalog, i + 1, best, bestScore)

\* what identifyCat resolves to: the handler's body, or null when invoke
\* reports an error (any non-2xx answer)     part_003:486-519, 759-797
IdentifyCatResults(img, table) ==
    {Null, MatchLoop(ImageFeatures(img), ListCats(table), 1, Null, 0)}

\* result?.existing_cat && result?.is_likely_same_cat    part_003:114
IsMatch(result) ==
    /\ result # Null
    /\ result.existing_cat # Null
    /\ result.is_likely_same_cat

\* {showExistingCat ? <p>... {aiResult.existing_cat.name} ...} reads the
\* name of null and throws while rendering           part_003:252-260
RenderThrows ==
    /\ dialog.aiResult # Null
    /\ ~dialog.isAnalyzing
    /\ dialog.showExistingCat
    /\ dialog.aiResult.existing_cat = Null

\* the dialog is on screen and its controls can be used
Rendered == dialog.open /\ ~RenderThrows

\* an error thrown while rendering unmounts the component
RenderFails ==
    /\ dialog.open
    /\ RenderThrows
    /\ dialog' = ClosedDialog
    /\ UNCHANGED <<storeVars, handlerVars, user, call, ncalls, inflight>>

\* handleImageUpload / handleImageCapture, and analyzeImage up to the
\* request: setCatImage(file), setIsAnalyzing(true), setAiResult(null)
\*                                               part_003:39-69, 72-97
HandleImageUpload(img) ==
    /\ Rendered
    /\ dialog' = [dialog EXCEPT !.catImage = img, !.isAnalyzing = TRUE,
                                !.aiResult = Null]
    /\ inflight' = inflight \cup {img}
    /\ UNCHANGED <<storeVars, handlerVars, user, call, ncalls>>

\* the rest of analyzeImage: identifyCat has returned (or the FileReader
\* failed); an unmounted dialog ignores the setState calls
\*                                                  part_003:99-157
AnalysisDone(img) ==
    /\ img \in inflight
    /\ inflight' = inflight \ {img}
    /\ \/ /\ dialog.open
          /\ \E result \in IdentifyCatResults(img, cats) :
                dialog' = [dialog EXCEPT
                    !.aiResult = result,
                    !.committed = FALSE,
                    !.showExistingCat = IF IsMatch(result) THEN TRUE ELSE @,
                    !.catName = IF IsMatch(result) THEN result.existing_cat.name ELSE @,
                    !.isAnalyzing = FALSE]
       \/ /\ dialog.open
          /\ dialog' = [dialog EXCEPT !.isAnalyzing = FALSE]
       \/ /\ ~dialog.open
          /\ UNCHANGED dialog
    /\ UNCHANGED <<storeVars, handlerVars, user, call, ncalls>>

\* the name input and the random-name button, both off while
\* showExistingCat                                   part_003:32-35, 350-369
SetCatName(name) ==
    /\ Rendered
    /\ ~dialog.showExistingCat
    /\ dialog' = [dialog EXCEPT !.catName = name]
    /\ UNCHANGED <<storeVars, handlerVars, user, call, ncalls, inflight>>

\* "No, this is a new cat"                           part_003:209-216, 262
HandleAddAsNewCat ==
    /\ Rendered
    /\ dialog.aiResult # Null
    /\ ~dialog.isAnalyzing
    /\ dialog.showExistingCat
    /\ dialog' = [dialog EXCEPT !.showExistingCat = FALSE, !.catName = EmptyName]
    /\ UNCHANGED <<storeVars, handlerVars, user, call, ncalls, inflight>>

\* the Save button (disabled={isSubmitting || isAnalyzing}) and handleSave
\* up to the first store statement of the call it awaits; a press that
\* fails the validation changes nothing          part_003:171-199, 376-386
HandleSave ==
    /\ Rendered
    /\ ~dialog.isSubmitting
    /\ ~dialog.isAnalyzing
    /\ dialog.catName # EmptyName
    /\ dialog.catImage # NoFile
    /\ dialog' = [dialog EXCEPT !.isSubmitting = TRUE, !.committed = TRUE]
    /\ IF dialog.showExistingCat /\ dialog.aiResult # Null
                                /\ dialog.aiResult.existing_cat # Null
       THEN AddSightingCall(DialogClient, dialog.aiResult.existing_cat.id,
                            Location(DialogClient)[1], Location(DialogClient)[2],
                            NoNotes)
       ELSE CreateCatStart(DialogClient, dialog.catName, dialog.catImage,
                           IF dialog.aiResult # Null THEN dialog.aiResult.features
                                                     ELSE EmptyObject,
                           Location(DialogClient)[1], Location(DialogClient)[2])
    /\ UNCHANGED inflight

\* the call handleSave awaits has returned: onSave() on success (the
\* parent closes the dialog), setIsSubmitting(false) in any case
\*                                                  part_003:201-206
SaveSettled ==
    /\ ReturnToCaller(DialogClient)
    /\ dialog' = IF dialog.open /\ call[DialogClient].result # "ok"
                  THEN [dialog EXCEPT !.isSubmitting = FALSE]
                  ELSE ClosedDialog
    /\ UNCHANGED inflight

\* the Cancel button: the parent closes the dialog   part_003:372-374
Cancel ==
    /\ Rendered
    /\ dialog' = ClosedDialog
    /\ UNCHANGED <<storeVars, handlerVars, user, call, ncalls, inflight>>

\* the catalog the dialog is opened on: empty, or one cat that photo
\* a.jpg shows, recorded by another user
InitDialog ==
    /\ cats \in {<<>>, <<CatRow(1, "Luna", ImageFeatures("a.jpg"), "u2")>>}
    /\ sightings = [i \in DOMAIN cats |->
                       SightingRow(i, cats[i].id, 48, 11, cats[i].created_by, NoNotes)]
    /\ user = [c \in Clients |-> IF c = DialogClient THEN "u1" ELSE "u2"]
    /\ ClientsIdle
    /\ apiKey = TRUE
    /\ hpc = "start"
    /\ HandlerIdle

NextDialog ==
    \/ \E img \in Images : HandleImageUpload(img)
    \/ \E img \in Images : AnalysisDone(img)
    \/ \E name \in Names \cup {EmptyName} : SetCatName(name)
    \/ HandleAddAsNewCat
    \/ HandleSave
    \/ UploadCatImage(DialogClient)
    \/ LinkImage(DialogClient)
    \/ FirstSighting(DialogClient)
    \/ SaveSettled
    \/ Cancel
    \/ RenderFails

SpecDialog == InitDialog /\ [][NextDialog]_vars

\* ================================================================ claims
ToSet(array) == {array[i] : i \in 1 .. Len(array)}
Stored(obj, key) == IF Has(obj, key) THEN ToSet(obj[key]) ELSE {}

\* the cats of a catalog that have stored features, by position
Featured(catalog) == {i \in DOMAIN catalog : ~IsNull(catalog[i].ai_features)}

\* the loop ran on the catalog and the pair (features, first cat) was scored
PairScored == hpc = "loop" /\ idx = 2 /\ scored # {}
ScoredFeatures == existingCats[1].ai_features

\* the request got as far as the loop
LoopEntered ==
    /\ hpc = "done"
    /\ ~Has(response, "error") \/ response.error = "TypeError"

\* ---- C1: every Cat row has at least one Sighting row referencing it, in
\* every state a read can observe (between the store steps of createCat
\* and after a failed createCat included).
C1_EveryCatHasSighting ==
    \A i \in DOMAIN cats : \E j \in DOMAIN sightings : sightings[j].cat_id = cats[i].id

\* ---- C2: createCat is all-or-nothing: returned successfully, exactly one
\* new Cat row and one new Sighting row referencing it exist; returned with
\* an error, neither a Cat row nor a Sighting row of the call persists.
C2_CreateCatAllOrNothing ==
    \A c \in Clients :
        (call[c].op = "createCat" /\ call[c].pc = "returned") =>
            IF call[c].result = "ok"
            THEN /\ Cardinality({i \in DOMAIN cats : cats[i].id = call[c].catId}) = 1
                 /\ Cardinality({j \in DOMAIN sightings :
                        /\ sightings[j].id = call[c].sightingId
                        /\ sightings[j].cat_id = call[c].catId}) = 1
            ELSE /\ ~CatExists(cats, call[c].catId)
                 /\ \A j \in DOMAIN sightings : sightings[j].cat_id # call[c].catId

\* the best cat of a catalog for a query: highest score among the featured
\* cats if that score is >= 70, the first such cat in catalog order
BestCandidate(query, catalog) ==
    LET score(i) == MatchScore(query, catalog[i].ai_features)
        top == {i \in Featured(catalog) :
                   \A k \in Featured(catalog) : score(k) <= score(i)}
    IN  IF top # {} /\ (\A i \in top : score(i) >= MATCH_THRESHOLD * Scale)
        THEN catalog[CHOOSE i \in top : \A k \in top : i <= k]
        ELSE Null

\* ---- C3: for every query and catalog the loop scores every cat that has
\* stored features (it never stops early) and the candidate returned is the
\* highest-scoring one if its score is >= 70, the first in catalog order on
\* a tie.
C3_BestCandidate ==
    LoopEntered =>
        /\ scored = {existingCats[i].id : i \in Featured(existingCats)}
        /\ ~ScoringThrows(features) =>
              response.existing_cat = BestCandidate(features, existingCats)

\* C3 restricted to the requests whose scoring does not throw
C3_WhenScoringCompletes ==
    (hpc = "done" /\ ~Has(response, "error")) =>
        /\ scored = {existingCats[i].id : i \in Featured(existingCats)}
        /\ response.existing_cat = BestCandidate(features, existingCats)

\* weight * |q /\ c| / max(|q|, 1) on the sets of tokens, in 1/Scale
SetPoints(query, existing, key, weight) ==
    (Cardinality(ToSet(query[key]) \cap Stored(existing, key)) * weight * Scale)
        \div Max(Cardinality(ToSet(query[key])), 1)

\* ---- C4: the score of a pair is breedPoints + 25*|qC /\ cC|/max(|qC|,1)
\* + 25*|qP /\ cP|/max(|qP|,1) + 30*|qD /\ cD|/max(|qD|,1); an empty query
\* dimension contributes 0; estimatedAge and size never change the score.
C4_ScoreFormula ==
    PairScored =>
        matchScore = BreedPoints(features, ScoredFeatures)
                     + SetPoints(features, ScoredFeatures, "colors", 25)
                     + SetPoints(features, ScoredFeatures, "patterns", 25)
                     + SetPoints(features, ScoredFeatures, "distinctive_features", 30)

NoRepeats(array) == Cardinality(ToSet(array)) = Len(array)

\* C4 restricted to the queries whose arrays hold no token twice
C4_WithoutRepeats ==
    (/\ PairScored
     /\ NoRepeats(features.colors)
     /\ NoRepeats(features.patterns)
     /\ NoRepeats(features.distinctive_features)) => C4_ScoreFormula

\* ---- C5: the breed contributes 20 points exactly when the query's breed
\* and the candidate's breed are both present and equal, and 0 whenever
\* either is absent (both absent included).
C5_BreedPoints ==
    PairScored =>
        matchScore
          - DimensionPoints(features, ScoredFeatures, "colors", COLOR_WEIGHT)
          - DimensionPoints(features, ScoredFeatures, "patterns", PATTERN_WEIGHT)
          - DimensionPoints(features, ScoredFeatures, "distinctive_features",
                            DISTINCTIVE_WEIGHT)
        = IF /\ Has(features, "breed")
             /\ Has(ScoredFeatures, "breed")
             /\ features.breed = ScoredFeatures.breed
          THEN 20 * Scale ELSE 0

\* ---- C6: every score the loop computes is at least 0 and at most 100.
C6_ScoreBounds == 0 <= matchScore /\ matchScore <= 100 * Scale

C6_Witness == PairScored /\ matchScore = 100 * Scale

\* ---- C7: in every response, on the success path and on every error
\* path, is_likely_same_cat is true exactly when match_score >= 70.
C7_ThresholdConsistency ==
    hpc = "done" =>
        (response.is_likely_same_cat <=> response.match_score >= 70 * Scale)

C7_Witness ==
    /\ hpc = "done"
    /\ ~Has(response, "error")
    /\ response.match_score = 70 * Scale
    /\ response.is_likely_same_cat

\* no cat of the catalog that has stored features scores >= 70 (none is
\* scored at all when the scoring throws)
NoCatClears(query, catalog) ==
    \/ ScoringThrows(query)
    \/ \A i \in Featured(catalog) :
          MatchScore(query, catalog[i].ai_features) < 70 * Scale

\* ---- C8: when the catalog is empty or no cat with stored features scores
\* >= 70 against the query, the response has candidate none, score 0 and
\* is_likely_same_cat false.
C8_NoMatchOutcome ==
    (/\ hpc = "done"
     /\ cats = <<>> \/ NoCatClears(features, ListCats(cats))) =>
        /\ response.existing_cat = Null
        /\ response.match_score = 0
        /\ response.is_likely_same_cat = FALSE

C8_Witness ==
    /\ hpc = "done"
    /\ ~Has(response, "error")
    /\ Featured(existingCats) # {}
    /\ matchScore > 0
    /\ NoCatClears(features, existingCats)

\* ---- C9: a cat that has no stored features (ai_features null, or the
\* empty object createCat stores when it is given none) is never returned
\* as the candidate.
C9_UnfeaturedNeverCandidate ==
    hpc = "done" =>
        \/ response.existing_cat = Null
        \/ response.existing_cat.ai_features \notin {Null, EmptyObject}

C9_Witness ==
    /\ hpc = "done"
    /\ response.existing_cat # Null
    /\ existingCats[1].ai_features \in {Null, EmptyObject}
    /\ response.existing_cat = existingCats[2]

\* ---- C10: addSighting(catId, ...) on an existing cat adds exactly one
\* Sighting row referencing catId and leaves every Cat row and every other
\* Sighting row unchanged (it adds none when the store rejects the insert).
C10_AddSightingFrame ==
    [][\A c \in Clients :
          (call[c].pc = "idle" /\ call'[c].op = "addSighting") =>
              /\ cats' = cats
              /\ IF call'[c].result = "ok"
                 THEN /\ CatExists(cats, call'[c].catId)
                      /\ Len(sightings') = Len(sightings) + 1
                      /\ SubSeq(sightings', 1, Len(sightings)) = sightings
                      /\ sightings'[Len(sightings')].cat_id = call'[c].catId
                 ELSE sightings' = sightings]_vars

C10_Witness ==
    \E c \in Clients :
        /\ call[c].op = "addSighting"
        /\ call[c].result = "ok"
        /\ Cardinality({j \in DOMAIN sightings : sightings[j].cat_id = call[c].catId}) = 2
        /\ \E i \in DOMAIN cats : cats[i].id = call[c].catId /\ cats[i].updated_at = 1

\* ---- C11: addSighting with a catId that resolves to no Cat row fails:
\* the call returns an error to its caller and neither the cats table nor
\* the cat_sightings table changes.
C11_UnknownCatRejected ==
    [][\A c \in Clients :
          (/\ call[c].pc = "idle"
           /\ call'[c].op = "addSighting"
           /\ \A i \in DOMAIN cats : cats[i].id # call'[c].catId) =>
              /\ call'[c].pc = "returned"
              /\ call'[c].result = "error"
              /\ cats' = cats
              /\ sightings' = sightings]_vars

C11_Witness ==
    \E c \in Clients :
        /\ user[c] # NoUser
        /\ call[c].op = "addSighting"
        /\ call[c].result = "error"
        /\ cats # <<>>
        /\ sightings # <<>>
        /\ \A i \in DOMAIN cats : cats[i].id # call[c].catId

\* ---- C12: in every reachable state every Sighting row's cat_id is the
\* id of a Cat row that exists.
C12_SightingsReferToCats ==
    \A j \in DOMAIN sightings :
        \E i \in DOMAIN cats : cats[i].id = sightings[j].cat_id

C12_Witness ==
    /\ Len(cats) = 2
    /\ \E j, k \in DOMAIN sightings :
          /\ sightings[j].cat_id = cats[1].id
          /\ sightings[k].cat_id = cats[2].id
          /\ sightings[j].spotted_by # cats[1].created_by

\* ---- C13: no step of the identify-cat handler inserts, updates or
\* deletes a Cat row or a Sighting row, whichever way the request ends
\* (match, no match, extractor failure, catalog read error).
C13_HandlerLeavesStore ==
    [][cats' = cats /\ sightings' = sightings]_vars

C13_Witness ==
    /\ hpc = "done"
    /\ response.is_likely_same_cat
    /\ Len(cats) = 2
    /\ Len(sightings) = 2

\* ---- C14: when the extractor's reply cannot be parsed into a feature
\* record, no placeholder record takes its place, the catalog is not scored
\* against one, and the response is a failure with no features and no
\* candidate.
C14_UnparsableReplyFails ==
    reply = "unparsable" =>
        /\ features = Null
        /\ scored = {}
        /\ hpc = "done" =>
              /\ Has(response, "error")
              /\ response.features = Null
              /\ response.existing_cat = Null

\* ---- C15: when the extractor answers with a non-success status, the
\* response is an error whose features are absent, whose candidate is
\* none, whose score is 0 and whose is_likely_same_cat is false.
C15_BadStatusOutcome ==
    (hpc = "done" /\ reply = "bad_status") =>
        /\ Has(response, "error")
        /\ response.features = Null
        /\ response.existing_cat = Null
        /\ response.match_score = 0
        /\ response.is_likely_same_cat = FALSE

C15_Witness ==
    /\ hpc = "done"
    /\ reply = "bad_status"
    /\ Has(response, "error")
    /\ Featured(cats) # {}

\* the query record lacks one of the three arrays
LacksDimension(query) ==
    \E key \in {"colors", "patterns", "distinctive_features"} : ~Has(query, key)

\* ---- C16: when the extracted query record lacks colors, patterns or
\* distinctive_features and the catalog was read, the request does not
\* fail: the response is a match outcome carrying the extracted record.
C16_MissingDimensionTolerated ==
    (/\ hpc = "done"
     /\ reply = "ok"
     /\ LacksDimension(features)
     /\ Featured(existingCats) # {}) =>
        /\ ~Has(response, "error")
        /\ response.features = features

\* C16 on the catalogs that hold no cat with stored features: nothing is
\* scored and the record's missing arrays are never read
C16_WhenNothingIsScored ==
    (/\ hpc = "done"
     /\ reply = "ok"
     /\ LacksDimension(features)
     /\ Featured(ListCats(cats)) = {}
     /\ Has(response, "error")) => response.error = "searchError"

\* ---- C17: every identify-cat request eventually returns an outcome, the
\* extractor answering or not (a timeout ends the wait).
C17_EveryRequestReturns == <>(hpc = "done")

\* C17 from the moment the extractor has answered
C17_ReturnsOnceAnswered == (reply # "none") ~> (hpc = "done")

\* ---- C18: a createCat call with an empty name or with no image is
\* rejected before any store write: no Cat row carries an empty name and
\* no call holding no image gets as far as a Cat row of its own.
C18_InvalidCommitRejected ==
    /\ \A i \in DOMAIN cats : cats[i].name # EmptyName
    /\ \A c \in Clients : call[c].imageFile = NoFile => call[c].catId = 0

\* ---- C19: createCat applies the decision taken at proposal time and
\* never consults the catalog: when the createCat calls of two clients have
\* both returned successfully, each has its own Cat row, the two
\* submissions describing the very same cat included.
C19_BothCommitsKept ==
    (\A c \in Clients : call[c].op = "createCat" /\ call[c].result = "ok") =>
        \E i, k \in DOMAIN cats :
            /\ i # k
            /\ cats[i].id = call["c1"].catId
            /\ cats[k].id = call["c2"].catId

C19_Witness ==
    /\ \A c \in Clients : call[c].op = "createCat" /\ call[c].result = "ok"
    /\ Len(cats) = 2
    /\ cats[1].name = cats[2].name
    /\ cats[1].ai_features = cats[2].ai_features
    /\ cats[1].ai_features # EmptyObject
    /\ cats[1].created_by # cats[2].created_by
    /\ sightings # <<>>
    /\ sightings[1].cat_id = cats[2].id

\* the two records hold the same non-empty set of tokens under the key
SameTokens(query, existing, key) ==
    /\ Has(query, key)
    /\ Has(existing, key)
    /\ ToSet(query[key]) # {}
    /\ ToSet(query[key]) = ToSet(existing[key])

\* ---- C20: a candidate whose breed equals the query's (both present) and
\* whose colors, patterns and distinctive features are each non-empty and
\* the same set as the query's scores exactly 100.
C20_PerfectMatch ==
    (/\ PairScored
     /\ Has(features, "breed")
     /\ Has(ScoredFeatures, "breed")
     /\ features.breed = ScoredFeatures.breed
     /\ SameTokens(features, ScoredFeatures, "colors")
     /\ SameTokens(features, ScoredFeatures, "patterns")
     /\ SameTokens(features, ScoredFeatures, "distinctive_features")) =>
        matchScore = 100 * Scale

C20_Witness ==
    /\ PairScored
    /\ Has(features, "breed")
    /\ Has(ScoredFeatures, "breed")
    /\ features.breed = ScoredFeatures.breed
    /\ SameTokens(features, ScoredFeatures, "colors")
    /\ SameTokens(features, ScoredFeatures, "patterns")
    /\ SameTokens(features, ScoredFeatures, "distinctive_features")
    /\ Len(features.colors) > Len(ScoredFeatures.colors)
    /\ Len(features.patterns) = 1

\* the two records share no token under the key
Disjoint(query, existing, key) == ToSet(query[key]) \cap Stored(existing, key) = {}

\* the breeds are both present and equal
BreedsMatch(query, existing) ==
    /\ Has(query, "breed")
    /\ Has(existing, "breed")
    /\ query.breed = existing.breed

\* ---- C21: a candidate whose colors, patterns and distinctive features
\* are each disjoint from the query's and whose breed does not match the
\* query's (an absent breed matches nothing) scores exactly 0.
C21_NoOverlapScoresZero ==
    (/\ PairScored
     /\ ~BreedsMatch(features, ScoredFeatures)
     /\ Disjoint(features, ScoredFeatures, "colors")
     /\ Disjoint(features, ScoredFeatures, "patterns")
     /\ Disjoint(features, ScoredFeatures, "distinctive_features")) =>
        matchScore = 0

\* C21 on the pairs in which at least one record names a breed
C21_WhenABreedIsNamed ==
    (/\ PairScored
     /\ Has(features, "breed") \/ Has(ScoredFeatures, "breed")
     /\ ~BreedsMatch(features, ScoredFeatures)
     /\ Disjoint(features, ScoredFeatures, "colors")
     /\ Disjoint(features, ScoredFeatures, "patterns")
     /\ Disjoint(features, ScoredFeatures, "distinctive_features")) =>
        matchScore = 0

\* ---- C22: a Cat row's stored features are those it was inserted with:
\* no step of createCat (the image-url update included) or of addSighting
\* changes the ai_features of a row that exists, or removes the row.
C22_FeaturesSetOnce ==
    [][\A i \in DOMAIN cats :
          /\ i \in DOMAIN cats'
          /\ cats'[i].id = cats[i].id
          /\ cats'[i].ai_features = cats[i].ai_features]_vars

C22_Witness ==
    \E i \in DOMAIN cats :
        /\ cats[i].ai_features # EmptyObject
        /\ cats[i].image_url # NullUrl
        /\ \E c \in Clients :
              /\ call[c].op = "addSighting"
              /\ call[c].result = "ok"
              /\ call[c].catId = cats[i].id

\* ---- C23: once a Sighting row exists no step changes any of its fields
\* or removes it.
C23_SightingsImmutable ==
    [][\A j \in DOMAIN sightings :
          /\ j \in DOMAIN sightings'
          /\ sightings'[j] = sightings[j]]_vars

C23_Witness ==
    /\ Len(sightings) = 3
    /\ sightings[1].cat_id = sightings[3].cat_id
    /\ sightings[1].spotted_by = sightings[3].spotted_by
    /\ \E i \in DOMAIN cats :
          cats[i].id = sightings[1].cat_id /\ cats[i].image_url # NullUrl

\* ---- C29: in every response match_score is 0 or lies in [70, 100], and
\* existing_cat is non-null exactly when is_likely_same_cat is true.
C29_ResponseShape ==
    hpc = "done" =>
        /\ \/ response.match_score = 0
           \/ /\ 70 * Scale <= response.match_score
              /\ response.match_score <= 100 * Scale
        /\ response.existing_cat # Null <=> response.is_likely_same_cat

C29_Witness ==
    /\ hpc = "done"
    /\ response.existing_cat # Null
    /\ response.match_score > 70 * Scale
    /\ response.match_score < 100 * Scale
    /\ \E i \in DOMAIN existingCats :
          /\ existingCats[i] # response.existing_cat
          /\ ~IsNull(existingCats[i].ai_features)

\* the Cat row of the call exists and has no image url
RowWithoutImage(table, catId) ==
    \E i \in DOMAIN table : table[i].id = catId /\ table[i].image_url = NullUrl

\* ---- C30: a failed image upload does not abort createCat: the call goes
\* on to the sighting insert with its Cat row kept and no image url on it,
\* and when that insert is accepted the Sighting row is added and createCat
\* returns successfully.
C30_UploadFailureTolerated ==
    [][\A c \in Clients :
          /\ (call[c].pc = "upload" /\ call'[c].pc # "upload"
                  /\ call'[c].imageUrl = NullUrl) =>
                /\ call'[c].pc = "sighting"
                /\ cats' = cats
                /\ RowWithoutImage(cats', call[c].catId)
          /\ (call[c].pc = "sighting" /\ call'[c].pc # "sighting"
                  /\ call[c].imageUrl = NullUrl
                  /\ sightings' # sightings) =>
                /\ call'[c].pc = "returned"
                /\ call'[c].result = "ok"
                /\ RowWithoutImage(cats', call[c].catId)
                /\ sightings'[Len(sightings')].cat_id = call[c].catId]_vars

C30_Witness ==
    \E c \in Clients :
        /\ call[c].op = "createCat"
        /\ call[c].result = "ok"
        /\ call[c].imageFile # NoFile
        /\ call[c].imageUrl = NullUrl
        /\ RowWithoutImage(cats, call[c].catId)
        /\ \E j \in DOMAIN sightings : sightings[j].cat_id = call[c].catId

\* this step is handleSave starting a createCat or an addSighting
CommitStarts ==
    call[DialogClient].pc = "idle" /\ call'[DialogClient].pc # "idle"

\* ---- C24: within the dialog no commit (createCat or addSighting) starts
\* while an identify-cat request of the dialog is still in flight, a second
\* image chosen before the first analysis returned included.
C24_NoCommitWhileAnalyzing ==
    [][CommitStarts => inflight = {}]_vars

\* ---- C25: a proposal is committed at most once: after a failed commit
\* no other commit starts until a fresh analysis has produced an outcome.
C25_NoRetryInPlace ==
    [][CommitStarts => ~dialog.committed]_vars

\* ---- C26: the proposal a commit applies (the features createCat stores,
\* the cat addSighting appends to) is the outcome of the analysis of the
\* image selected last, also when the analysis of an earlier image returned
\* after that of the later one.
C26_CommitUsesLastImage ==
    [][(CommitStarts /\ inflight = {} /\ dialog.aiResult # Null) =>
          dialog.aiResult.features = ImageFeatures(dialog.catImage)]_vars

\* ---- C27: whenever showExistingCat is true and an analysis result is
\* held (aiResult non-null, no analysis running), aiResult.existing_cat is
\* non-null.
C27_ShownMatchHasCat ==
    (/\ dialog.open
     /\ dialog.showExistingCat
     /\ dialog.aiResult # Null
     /\ ~dialog.isAnalyzing) => dialog.aiResult.existing_cat # Null

\* ---- C28: one dialog adds at most one Cat row to the store, however
\* many times Save is pressed after failed attempts.
C28_AtMostOneCatPerDialog ==
    Cardinality({i \in DOMAIN cats : cats[i].created_by = user[DialogClient]}) <= 1
====
